---- MODULE Spec2Model ----
(***************************************************************************)
(* Bucket trim counters of the RADOS gateway (rgw_sync_log_trim.cc):       *)
(* the wire messages of the TrimCounters api, the BucketTrimWatcher        *)
(* watch/notify state machine and the mutex-guarded BucketChangeCounter of *)
(* BucketTrimManager.                                                      *)
(***************************************************************************)
EXTENDS Integers, Sequences, FiniteSets, TLC

(***************************************************************************)
(* Bounds of the model.                                                    *)
(***************************************************************************)
NumProducers == 2      \* producer contexts calling on_bucket_changed
MaxCalls == 2          \* on_bucket_changed calls started in one behaviour
MaxNotifies == 2       \* notifications delivered in one behaviour
MaxErrors == 2         \* error callbacks delivered in one behaviour
MaxSampleCount == 3    \* largest count of the sampled small counters
ExtraKeys == 1         \* keys beyond the response ceiling in the large counters

(***************************************************************************)
(* Program constants.                                                      *)
(***************************************************************************)
NotifyTrimCounters == 0
HardCeiling == 128
StructV == 1
StructCompat == 1
RawEnumBytes == 4

ENOENT == "ENOENT"
EEXIST == "EEXIST"
ENOTCONN == "ENOTCONN"
EOTHER == "EOTHER"           \* any other negative errno
OK == "OK"                   \* return value 0

Min(a, b) == IF a < b THEN a ELSE b

(***************************************************************************)
(* Byte strings.  A bufferlist is a sequence of bytes; an iterator is an   *)
(* offset into it (number of bytes consumed).                              *)
(***************************************************************************)
Byte == 0..255

RECURSIVE Pow256(_)
Pow256(w) == IF w = 0 THEN 1 ELSE 256 * Pow256(w - 1)

\* little-endian encoding of n in w bytes (encode of __u8/uint16_t/__u32/int)
EncodeLE(n, w) == [i \in 1..w |-> (n \div Pow256(i - 1)) % 256]

RECURSIVE ValueLE(_, _, _)
ValueLE(bl, off, w) ==
  IF w = 0 THEN 0 ELSE bl[off + 1] + 256 * ValueLE(bl, off + 1, w - 1)

\* decode of a w-byte integer at the iterator: buffer::end_of_buffer when
\* fewer than w bytes remain
DecodeLE(bl, off, w) ==
  IF off + w > Len(bl)
    THEN [ok |-> FALSE, err |-> "end_of_buffer", val |-> 0, off |-> off]
    ELSE [ok |-> TRUE, err |-> "none", val |-> ValueLE(bl, off, w), off |-> off + w]

\* decode of a signed 32-bit value (int, and the raw enum)
DecodeInt32(bl, off) ==
  IF off + 4 > Len(bl)
    THEN [ok |-> FALSE, err |-> "end_of_buffer", val |-> 0, off |-> off]
    ELSE [ok |-> TRUE, err |-> "none",
          val |-> ValueLE(bl, off, 3)
                  + Pow256(3) * (IF bl[off + 4] >= 128 THEN bl[off + 4] - 256
                                                       ELSE bl[off + 4]),
          off |-> off + 4]

\* the largest length the model tells apart: a __u32 above it is decoded as
\* this value, which exceeds the length of every buffer of the model
HugeLength == Pow256(3) * 127 + (Pow256(3) - 1)

\* decode of a __u32 length or size
DecodeU32(bl, off) ==
  IF off + 4 > Len(bl)
    THEN [ok |-> FALSE, err |-> "end_of_buffer", val |-> 0, off |-> off]
    ELSE [ok |-> TRUE, err |-> "none",
          val |-> IF bl[off + 4] >= 128 THEN HugeLength ELSE ValueLE(bl, off, 4),
          off |-> off + 4]

Prefix(bl, k) == SubSeq(bl, 1, Min(k, Len(bl)))

\* lexicographic order of byte strings (std::string operator<)
RECURSIVE KeyLess(_, _)
KeyLess(a, b) ==
  IF Len(b) = 0 THEN FALSE
  ELSE IF Len(a) = 0 THEN TRUE
  ELSE IF a[1] # b[1] THEN a[1] < b[1]
  ELSE KeyLess(Tail(a), Tail(b))

(***************************************************************************)
(* Wire protocol.                                                          *)
(***************************************************************************)
\* ::encode(std::string): __u32 length, then the bytes
EncodeString(str) == EncodeLE(Len(str), 4) \o str

DecodeString(bl, off) ==
  LET n == DecodeU32(bl, off) IN
  IF ~n.ok THEN [ok |-> FALSE, err |-> n.err, val |-> <<>>, off |-> off]
  ELSE IF n.val > Len(bl) - n.off
    THEN [ok |-> FALSE, err |-> "end_of_buffer", val |-> <<>>, off |-> off]
    ELSE [ok |-> TRUE, err |-> "none",
          val |-> SubSeq(bl, n.off + 1, n.off + n.val), off |-> n.off + n.val]

\* ENCODE_START(v, compat, bl) ... ENCODE_FINISH(bl): struct_v, struct_compat,
\* the __u32 length of the body, the body
EncodeStartFinish(v, compat, body) ==
  <<v, compat>> \o EncodeLE(Len(body), 4) \o body

\* DECODE_START(v, p): reads struct_v, struct_compat and struct_len; throws
\* buffer::malformed_input when the decoder's version v is below struct_compat
\* or when struct_len exceeds the bytes remaining
DecodeStart(v, bl, off) ==
  LET sv == DecodeLE(bl, off, 1)
      sc == DecodeLE(bl, sv.off, 1)
      sl == DecodeU32(bl, sc.off)
      fail(e) == [ok |-> FALSE, err |-> e, struct_v |-> 0, struct_end |-> 0, off |-> off]
  IN IF ~sv.ok THEN fail(sv.err)
     ELSE IF ~sc.ok THEN fail(sc.err)
     ELSE IF v < sc.val THEN fail("malformed_input_oldversion")
     ELSE IF ~sl.ok THEN fail(sl.err)
     ELSE IF sl.val > Len(bl) - sl.off THEN fail("malformed_input_past")
     ELSE [ok |-> TRUE, err |-> "none", struct_v |-> sv.val,
           struct_end |-> sl.off + sl.val, off |-> sl.off]

\* DECODE_FINISH(p): throws when the body ran past struct_end, skips what the
\* decoder did not understand
DecodeFinish(off, struct_end) ==
  IF struct_end # 0 /\ off > struct_end
    THEN [ok |-> FALSE, err |-> "malformed_input_past", off |-> off]
    ELSE [ok |-> TRUE, err |-> "none",
          off |-> IF struct_end # 0 /\ off < struct_end THEN struct_end ELSE off]

BucketCounter(bucket, count) == [bucket |-> bucket, count |-> count]

EncodeCountFirst(bc) == EncodeLE(bc.count, 4) \o EncodeString(bc.bucket)

EncodeBucketCounter(bc) == EncodeString(bc.bucket) \o EncodeLE(bc.count, 4)

DecodeBucketCounter(bl, off) ==
  LET b == DecodeString(bl, off)
      c == DecodeInt32(bl, b.off)
      fail(e) == [ok |-> FALSE, err |-> e, val |-> BucketCounter(<<>>, 0), off |-> off]
  IN IF ~b.ok THEN fail(b.err)
     ELSE IF ~c.ok THEN fail(c.err)
     ELSE [ok |-> TRUE, err |-> "none",
           val |-> BucketCounter(b.val, c.val), off |-> c.off]

EncodeRequest(req) ==
  EncodeStartFinish(StructV, StructCompat, EncodeLE(req.max_buckets, 2))

DecodeRequestAnyCompat(bl, off) ==
  LET mb == DecodeLE(bl, off + 6, 2)
  IN [ok |-> mb.ok, err |-> mb.err,
      val |-> [max_buckets |-> mb.val], off |-> mb.off]

DecodeRequest(bl, off) ==
  LET st == DecodeStart(StructV, bl, off)
      mb == DecodeLE(bl, st.off, 2)
      fin == DecodeFinish(mb.off, st.struct_end)
      fail(e) == [ok |-> FALSE, err |-> e, val |-> [max_buckets |-> 0], off |-> off]
  IN IF ~st.ok THEN fail(st.err)
     ELSE IF ~mb.ok THEN fail(mb.err)
     ELSE IF ~fin.ok THEN fail(fin.err)
     ELSE [ok |-> TRUE, err |-> "none", val |-> [max_buckets |-> mb.val], off |-> fin.off]

\* ::encode(std::vector<BucketCounter>): __u32 size, then every element
\* (the elements one after the other; computed by halves)
RECURSIVE EncodeEntries(_)
EncodeEntries(v) ==
  IF Len(v) = 0 THEN <<>>
  ELSE IF Len(v) = 1 THEN EncodeBucketCounter(v[1])
  ELSE LET h == Len(v) \div 2
       IN EncodeEntries(SubSeq(v, 1, h)) \o EncodeEntries(SubSeq(v, h + 1, Len(v)))

EncodeVector(v) == EncodeLE(Len(v), 4) \o EncodeEntries(v)

\* n elements decoded one after the other from off (computed by halves);
\* the first element that fails to decode fails the whole
RECURSIVE DecodeEntries(_, _, _)
DecodeEntries(bl, off, n) ==
  LET fail(e) == [ok |-> FALSE, err |-> e, val |-> <<>>, off |-> off] IN
  IF n = 0 THEN [ok |-> TRUE, err |-> "none", val |-> <<>>, off |-> off]
  ELSE IF n = 1
    THEN LET e == DecodeBucketCounter(bl, off) IN
         IF ~e.ok THEN fail(e.err)
         ELSE [ok |-> TRUE, err |-> "none", val |-> <<e.val>>, off |-> e.off]
    ELSE LET h == n \div 2
             a == DecodeEntries(bl, off, h)
             b == DecodeEntries(bl, a.off, n - h)
         IN IF ~a.ok THEN fail(a.err)
            ELSE IF ~b.ok THEN fail(b.err)
            ELSE [ok |-> TRUE, err |-> "none", val |-> a.val \o b.val, off |-> b.off]

DecodeVector(bl, off) ==
  LET n == DecodeU32(bl, off) IN
  IF ~n.ok THEN [ok |-> FALSE, err |-> n.err, val |-> <<>>, off |-> off]
  ELSE DecodeEntries(bl, n.off, n.val)

EncodeResponse(resp) ==
  EncodeStartFinish(StructV, StructCompat, EncodeVector(resp.bucket_counters))

DecodeResponse(bl, off) ==
  LET st == DecodeStart(StructV, bl, off)
      v == DecodeVector(bl, st.off)
      fin == DecodeFinish(v.off, st.struct_end)
      fail(e) == [ok |-> FALSE, err |-> e, val |-> [bucket_counters |-> <<>>], off |-> off]
  IN IF ~st.ok THEN fail(st.err)
     ELSE IF ~v.ok THEN fail(v.err)
     ELSE IF ~fin.ok THEN fail(fin.err)
     ELSE [ok |-> TRUE, err |-> "none", val |-> [bucket_counters |-> v.val], off |-> fin.off]

\* WRITE_RAW_ENCODER(TrimNotifyType): the enum's bytes as they are in memory
EncodeNotifyType(type) == EncodeLE(type, RawEnumBytes)

DecodeNotifyType(bl, off) == DecodeInt32(bl, off)

(***************************************************************************)
(* BucketChangeCounter = BoundedKeyCounter<std::string, int>: a function   *)
(* from the keys it holds to their counts.                                 *)
(***************************************************************************)
EmptyCounter == [k \in {} |-> 0]

CounterGet(c, key) == IF key \in DOMAIN c THEN c[key] ELSE 0

CounterWouldEvict(c, bound, key) ==
  key \notin DOMAIN c /\ Cardinality(DOMAIN c) >= bound

\* the counter after key was given the count n; when key is new and the
\* counter is full, victim is the entry that makes room
CounterStore(c, bound, key, n, victim) ==
  LET keep == IF CounterWouldEvict(c, bound, key)
                THEN (DOMAIN c) \ {victim} ELSE DOMAIN c
  IN [k \in keep \cup {key} |-> IF k = key THEN n ELSE c[k]]

\* insert(key): the count of key goes up by one
CounterInsert(c, bound, key, victim) ==
  CounterStore(c, bound, key, CounterGet(c, key) + 1, victim)

\* a precedes b in the order of get_highest: larger count first, equal
\* counts in key order
Precedes(c, a, b) == c[a] > c[b] \/ (c[a] = c[b] /\ KeyLess(a, b))

\* the keys of the counter in the order of get_highest: every key stands
\* behind the keys that precede it
SortedKeys(c) ==
  LET rank == [k \in DOMAIN c |->
                 1 + Cardinality({j \in DOMAIN c : Precedes(c, j, k)})]
  IN [i \in 1..Cardinality(DOMAIN c) |-> CHOOSE k \in DOMAIN c : rank[k] = i]

\* get_highest(count, callback): the (key, count) pairs handed to the
\* callback, in the order of the calls
GetHighest(c, count) ==
  LET sorted == SortedKeys(c)
  IN [i \in 1..Min(count, Len(sorted)) |-> <<sorted[i], c[sorted[i]]>>]

(***************************************************************************)
(* TrimCounters::Server and TrimCounters::Handler.                         *)
(***************************************************************************)
\* the callback of get_bucket_counters
EmplaceFront(buckets, key, count) == <<BucketCounter(key, count)>> \o buckets

EmplaceBack(buckets, key, count) == Append(buckets, BucketCounter(key, count))

\* buckets after the callback ran on every pair, in order (computed by
\* halves)
RECURSIVE CollectHighest(_, _)
CollectHighest(pairs, buckets) ==
  IF Len(pairs) = 0 THEN buckets
  ELSE IF Len(pairs) = 1 THEN EmplaceBack(buckets, pairs[1][1], pairs[1][2])
  ELSE LET h == Len(pairs) \div 2
       IN CollectHighest(SubSeq(pairs, h + 1, Len(pairs)),
                         CollectHighest(SubSeq(pairs, 1, h), buckets))

\* the vector get_bucket_counters(count, buckets) fills from the counter
GetBucketCounters(count, c) == CollectHighest(GetHighest(c, count), <<>>)

UnclampedCount(max_buckets) == max_buckets

\* std::min<uint16_t>(request.max_buckets, 128)
ClampCount(max_buckets) == Min(max_buckets, HardCeiling)

\* Handler::handle(input, output) on a counter c: the bytes appended to
\* output, or the buffer::error thrown before anything is appended
HandlerHandle(bl, off, c) ==
  LET req == DecodeRequest(bl, off) IN
  IF ~req.ok THEN [ok |-> FALSE, err |-> req.err, output |-> <<>>]
  ELSE [ok |-> TRUE, err |-> "none",
        output |-> EncodeResponse(
          [bucket_counters |-> GetBucketCounters(ClampCount(req.val.max_buckets), c)])]

(***************************************************************************)
(* Inputs of the model.                                                    *)
(***************************************************************************)
\* "bucket1:inst1" and "bucket2:inst1" as bytes
Bucket1Inst1 == <<98, 117, 99, 107, 101, 116, 49, 58, 105, 110, 115, 116, 49>>
Bucket2Inst1 == <<98, 117, 99, 107, 101, 116, 50, 58, 105, 110, 115, 116, 49>>
Buckets == {Bucket1Inst1, Bucket2Inst1}

\* values of config.counter_size
CounterSizes == {1, 2}

Producers == 1..NumProducers
DeliveryCtx == NumProducers + 1

\* a notification payload: the raw type, then the rest
NotifyPayload(type, rest) == EncodeNotifyType(type) \o rest

GoodRequest(n) == EncodeRequest([max_buckets |-> n])

\* a request of a later version that this decoder cannot read
FutureRequest(n) ==
  EncodeStartFinish(StructV + 1, StructCompat + 1, EncodeLE(n, 2))

\* a request whose struct_len claims more bytes than follow
OverlongRequest(n) ==
  <<StructV, StructCompat>> \o EncodeLE(3, 4) \o EncodeLE(n, 2)

\* payloads peers send in the state machine
NotifyPayloads ==
  { NotifyPayload(NotifyTrimCounters, GoodRequest(2)),
    NotifyPayload(NotifyTrimCounters, Prefix(GoodRequest(2), 7)),
    NotifyPayload(NotifyTrimCounters, FutureRequest(2)),
    NotifyPayload(NotifyTrimCounters, OverlongRequest(2)),
    NotifyPayload(NotifyTrimCounters + 1, GoodRequest(2)),
    NotifyPayload(0 - 1, GoodRequest(2)),
    Prefix(NotifyPayload(NotifyTrimCounters, GoodRequest(2)), 2),
    <<>> }

WatchResults == {OK, ENOENT, EOTHER}
CreateResults == {OK, EEXIST, EOTHER}
UnwatchResults == {OK, EOTHER}
RefResults == {OK, EOTHER}
ErrorCodes == {ENOTCONN, EOTHER}

(***************************************************************************)
(* State.                                                                  *)
(***************************************************************************)
VARIABLES
  counter,      \* Impl::counter
  bound,        \* config.counter_size
  mutex,        \* Impl::mutex: the set of contexts holding it
  ppc,          \* position of every producer in on_bucket_changed
  pkey,         \* its bucket argument
  ptmp,         \* the count insert found for the key
  calls,        \* on_bucket_changed(b) calls that have returned, per bucket
  started,      \* on_bucket_changed calls started
  evicted,      \* an insert had to make room for a new key
  handle,       \* BucketTrimWatcher::handle
  ioctx,        \* ref.ioctx: "null", "open" or "closed"
  watches,      \* cookies of the watches registered on the object
  nextCookie,   \* the next cookie the cluster hands out
  mpc,          \* position of the owner in init()/start()/stop()
  mret,         \* r of start()
  dpc,          \* position of the delivery context in its callback
  dNotifyId, dCookie, dBl, dErr,   \* arguments of the callback
  dCount,       \* count of Handler::handle
  dBuckets,     \* response.bucket_counters
  dReply,       \* reply of handle_notify
  acks,         \* the notify_ack calls made
  accepted,     \* notify ids that passed the cookie check
  nextNotify,   \* the next notify id
  errorsDelivered,  \* handle_error callbacks delivered
  rsStats,      \* disconnects acted on, unwatch2 and watch2 calls of restart()
  crashed,      \* the process dereferenced a null io_ctx_impl and died
  hIn, hOut     \* input and result of one call checked alone

cvars == <<counter, bound, mutex, ppc, pkey, ptmp, calls, started, evicted>>
tvars == <<handle, ioctx, watches, nextCookie>>
mvars == <<mpc, mret>>
dargs == <<dNotifyId, dCookie, dBl, dErr>>
dlocals == <<dCount, dBuckets, dReply>>
dvars == <<dpc, dargs, dlocals, acks, accepted, nextNotify, errorsDelivered, rsStats>>
hvars == <<hIn, hOut>>
vars == <<cvars, tvars, mvars, dvars, crashed, hvars>>

NoInput == [bl |-> <<>>, counter |-> EmptyCounter]
NoOutput == [ok |-> FALSE, err |-> "none", output |-> <<>>]

Init ==
  /\ counter = EmptyCounter
  /\ bound \in CounterSizes
  /\ mutex = {}
  /\ ppc = [p \in Producers |-> "idle"]
  /\ pkey = [p \in Producers |-> <<>>]
  /\ ptmp = [p \in Producers |-> 0]
  /\ calls = [b \in Buckets |-> 0]
  /\ started = 0
  /\ evicted = FALSE
  /\ handle = 0
  /\ ioctx = "null"
  /\ watches = {}
  /\ nextCookie = 1
  /\ mpc = "new"
  /\ mret = OK
  /\ dpc = "idle"
  /\ dNotifyId = 0 /\ dCookie = 0 /\ dBl = <<>> /\ dErr = OK
  /\ dCount = 0 /\ dBuckets = <<>> /\ dReply = <<>>
  /\ acks = <<>>
  /\ accepted = {}
  /\ nextNotify = 1
  /\ errorsDelivered = 0
  /\ rsStats = [disconnects |-> 0, unwatch |-> 0, watch |-> 0]
  /\ crashed = FALSE
  /\ hIn = NoInput
  /\ hOut = NoOutput

(***************************************************************************)
(* BucketTrimManager::on_bucket_changed.                                   *)
(***************************************************************************)
MutexIgnored(m) == TRUE

MutexAdmitsTwo(m) == Cardinality(m) <= 1

\* std::lock_guard<std::mutex> can take the mutex
MutexFree(m) == m = {}

\* a producer context calls on_bucket_changed(b)
P_Call(p, b) ==
  /\ ~crashed
  /\ ppc[p] = "idle"
  /\ started < MaxCalls
  /\ ppc' = [ppc EXCEPT ![p] = "lock"]
  /\ pkey' = [pkey EXCEPT ![p] = b]
  /\ started' = started + 1
  /\ UNCHANGED <<counter, bound, mutex, ptmp, calls, evicted>>
  /\ UNCHANGED <<tvars, mvars, dvars, crashed, hvars>>

\* lock_guard lock(impl->mutex); insert looks the key up
P_Lock(p) ==
  /\ ~crashed
  /\ ppc[p] = "lock"
  /\ MutexFree(mutex)
  /\ mutex' = mutex \cup {p}
  /\ ptmp' = [ptmp EXCEPT ![p] = CounterGet(counter, pkey[p])]
  /\ ppc' = [ppc EXCEPT ![p] = "insert"]
  /\ UNCHANGED <<counter, bound, pkey, calls, started, evicted>>
  /\ UNCHANGED <<tvars, mvars, dvars, crashed, hvars>>

\* insert stores the incremented count; the lock_guard releases the mutex and
\* on_bucket_changed returns
P_Insert(p) ==
  /\ ~crashed
  /\ ppc[p] = "insert"
  /\ \E victim \in IF CounterWouldEvict(counter, bound, pkey[p])
                     THEN DOMAIN counter ELSE {pkey[p]} :
       counter' = CounterStore(counter, bound, pkey[p], ptmp[p] + 1, victim)
  /\ evicted' = (evicted \/ CounterWouldEvict(counter, bound, pkey[p]))
  /\ mutex' = mutex \ {p}
  /\ calls' = [calls EXCEPT ![pkey[p]] = @ + 1]
  /\ ppc' = [ppc EXCEPT ![p] = "idle"]
  /\ pkey' = [pkey EXCEPT ![p] = <<>>]
  /\ ptmp' = [ptmp EXCEPT ![p] = 0]
  /\ UNCHANGED <<bound, started>>
  /\ UNCHANGED <<tvars, mvars, dvars, crashed, hvars>>

(***************************************************************************)
(* The object store behind ref.ioctx.                                      *)
(***************************************************************************)
\* a call through ref.ioctx finds an io context behind it
CtxUsable == ioctx = "open"

\* the process dies in a call through a null io_ctx_impl
Crash ==
  /\ ~CtxUsable
  /\ crashed' = TRUE
  /\ UNCHANGED <<cvars, tvars, mvars, dvars, hvars>>

\* results a call through ref.ioctx can return: any of rs on an open
\* context, only an error on a null one that did not kill the process
CtxResults(rs) == IF CtxUsable THEN rs ELSE {EOTHER}

\* ioctx.watch2(oid, &handle, this) returning res: a handle or an error; a
\* watch that could not be registered leaves no handle (*handle = 0), and a
\* call that found no io context did nothing
Watch2(res) ==
  IF res = OK
    THEN /\ handle' = nextCookie
         /\ watches' = watches \cup {nextCookie}
         /\ nextCookie' = nextCookie + 1
    ELSE /\ handle' = IF CtxUsable THEN 0 ELSE handle
         /\ UNCHANGED <<watches, nextCookie>>

\* ioctx.unwatch2(handle) returning res: the watch is cancelled on this
\* client whether or not the cluster confirms it (res); a call that found no
\* io context did nothing
Unwatch2(res) ==
  /\ watches' = IF CtxUsable THEN watches \ {handle} ELSE watches
  /\ UNCHANGED <<handle, nextCookie>>

\* ioctx.close()
Close == ioctx' = IF ioctx = "open" THEN "closed" ELSE ioctx

(***************************************************************************)
(* BucketTrimManager::init and BucketTrimWatcher::start.                   *)
(***************************************************************************)
\* init() calls start(); store->get_raw_obj_ref(obj, &ref) returns res
ST_GetRef(res) ==
  /\ ~crashed
  /\ mpc = "new"
  /\ IF res = OK
       THEN ioctx' = "open" /\ mpc' = "st_watch" /\ UNCHANGED mret
       ELSE mret' = res /\ mpc' = "ready" /\ UNCHANGED ioctx
  /\ UNCHANGED <<handle, watches, nextCookie>>
  /\ UNCHANGED <<cvars, dvars, crashed, hvars>>

\* r = ref.ioctx.watch2(ref.oid, &handle, this)
ST_Watch(res) ==
  /\ ~crashed
  /\ mpc = "st_watch"
  /\ res \in CtxResults(WatchResults)
  /\ Watch2(res)
  /\ mret' = res
  /\ mpc' = IF res = ENOENT THEN "st_create"
            ELSE IF res = OK THEN "ready" ELSE "st_close"
  /\ UNCHANGED ioctx
  /\ UNCHANGED <<cvars, dvars, crashed, hvars>>

RetryAfterAnyCreate(res) == TRUE

\* if (r == -EEXIST || r == 0)
RetryAfterCreate(res) == res = EEXIST \/ res = OK

\* r = ref.ioctx.create(ref.oid, exclusive)
ST_Create(res) ==
  /\ ~crashed
  /\ mpc = "st_create"
  /\ res \in CtxResults(CreateResults)
  /\ mret' = res
  /\ mpc' = IF RetryAfterCreate(res) THEN "st_rewatch" ELSE "st_close"
  /\ UNCHANGED <<tvars>>
  /\ UNCHANGED <<cvars, dvars, crashed, hvars>>

\* the second r = ref.ioctx.watch2(ref.oid, &handle, this)
ST_Rewatch(res) ==
  /\ ~crashed
  /\ mpc = "st_rewatch"
  /\ res \in CtxResults(WatchResults)
  /\ Watch2(res)
  /\ mret' = res
  /\ mpc' = IF res = OK THEN "ready" ELSE "st_close"
  /\ UNCHANGED ioctx
  /\ UNCHANGED <<cvars, dvars, crashed, hvars>>

\* if (r < 0) { ref.ioctx.close(); return r; }
ST_Close ==
  /\ ~crashed
  /\ mpc = "st_close"
  /\ Close
  /\ mpc' = "ready"
  /\ UNCHANGED <<handle, watches, nextCookie, mret>>
  /\ UNCHANGED <<cvars, dvars, crashed, hvars>>

(***************************************************************************)
(* BucketTrimWatcher::stop, also run by the destructor.                    *)
(***************************************************************************)
\* ref.ioctx.unwatch2(handle)
SP_Unwatch(res) ==
  /\ ~crashed
  /\ mpc \in {"new", "ready", "stopped"}
  /\ res \in CtxResults(UnwatchResults)
  /\ Unwatch2(res)
  /\ mpc' = "sp_close"
  /\ UNCHANGED <<ioctx, mret>>
  /\ UNCHANGED <<cvars, dvars, crashed, hvars>>

\* ref.ioctx.close()
SP_Close ==
  /\ ~crashed
  /\ mpc = "sp_close"
  /\ Close
  /\ mpc' = "stopped"
  /\ UNCHANGED <<handle, watches, nextCookie, mret>>
  /\ UNCHANGED <<cvars, dvars, crashed, hvars>>

\* ref.ioctx.unwatch2(handle) of stop() through a null io_ctx_impl kills the
\* process
SP_Crash ==
  /\ ~crashed
  /\ mpc \in {"new", "ready", "stopped"}
  /\ Crash

(***************************************************************************)
(* BucketTrimWatcher::handle_notify.                                       *)
(***************************************************************************)
DReturn ==
  /\ dpc' = "idle"
  /\ dNotifyId' = 0 /\ dCookie' = 0 /\ dBl' = <<>> /\ dErr' = OK
  /\ dCount' = 0 /\ dBuckets' = <<>> /\ dReply' = <<>>

\* the cookies a callback can carry: those of the watches this watcher was
\* given, current or not
DeliveredCookies == 1..(nextCookie - 1)

\* the transport calls handle_notify(notify_id, cookie, notifier_id, bl)
D_Notify(cookie, bl) ==
  /\ ~crashed
  /\ dpc = "idle"
  /\ nextNotify <= MaxNotifies
  /\ cookie \in DeliveredCookies
  /\ dpc' = "hn_entry"
  /\ dNotifyId' = nextNotify
  /\ dCookie' = cookie
  /\ dBl' = bl
  /\ nextNotify' = nextNotify + 1
  /\ UNCHANGED <<dErr, dlocals, acks, accepted, errorsDelivered, rsStats>>
  /\ UNCHANGED <<cvars, tvars, mvars, crashed, hvars>>

AnyHandlerTypes == {NotifyTrimCounters, NotifyTrimCounters + 1}

AnyCookie(cookie, h) == TRUE

CookieOrUnset(cookie, h) == cookie = h \/ h = 0

\* the callback is for the current watch: !(cookie != handle)
CookieMatches(cookie, h) == cookie = h

\* if (cookie != handle) return;
HN_Check ==
  /\ ~crashed
  /\ dpc = "hn_entry"
  /\ IF CookieMatches(dCookie, handle)
       THEN /\ dpc' = "hn_decode"
            /\ accepted' = accepted \cup {dNotifyId}
            /\ UNCHANGED <<dargs, dlocals>>
       ELSE /\ DReturn
            /\ UNCHANGED accepted
  /\ UNCHANGED <<acks, nextNotify, errorsDelivered, rsStats>>
  /\ UNCHANGED <<cvars, tvars, mvars, crashed, hvars>>

\* the keys of BucketTrimWatcher::handlers
HandlerTypes == {NotifyTrimCounters}

Propagated == "idle"

\* catch (const buffer::error& e): the error is logged and handle_notify
\* goes on to the notify_ack
AfterBufferError == "hn_ack"

\* ::decode(type, p); handlers.find(type): the handler is called, or nothing
\* is (no handler, or buffer::error caught) and the reply stays empty
HN_Dispatch ==
  /\ ~crashed
  /\ dpc = "hn_decode"
  /\ LET type == DecodeNotifyType(dBl, 0) IN
     dpc' = IF ~type.ok THEN AfterBufferError
            ELSE IF type.val \in HandlerTypes THEN "hn_handle" ELSE "hn_ack"
  /\ UNCHANGED <<dargs, dlocals, acks, accepted, nextNotify, errorsDelivered, rsStats>>
  /\ UNCHANGED <<cvars, tvars, mvars, crashed, hvars>>

\* Handler::handle: ::decode(request, input); count = min(max_buckets, 128);
\* a buffer::error leaves it for the catch of handle_notify
HN_Handle ==
  /\ ~crashed
  /\ dpc = "hn_handle"
  /\ LET req == DecodeRequest(dBl, RawEnumBytes) IN
     IF req.ok
       THEN dpc' = "hn_lock" /\ dCount' = ClampCount(req.val.max_buckets)
       ELSE dpc' = AfterBufferError /\ UNCHANGED dCount
  /\ UNCHANGED <<dargs, dBuckets, dReply, acks, accepted, nextNotify, errorsDelivered, rsStats>>
  /\ UNCHANGED <<cvars, tvars, mvars, crashed, hvars>>

\* get_bucket_counters: lock_guard lock(mutex); counter.get_highest(...)
HN_Lock ==
  /\ ~crashed
  /\ dpc = "hn_lock"
  /\ MutexFree(mutex)
  /\ mutex' = mutex \cup {DeliveryCtx}
  /\ dBuckets' = GetBucketCounters(dCount, counter)
  /\ dpc' = "hn_locked"
  /\ UNCHANGED <<dargs, dCount, dReply, acks, accepted, nextNotify, errorsDelivered, rsStats>>
  /\ UNCHANGED <<counter, bound, ppc, pkey, ptmp, calls, started, evicted>>
  /\ UNCHANGED <<tvars, mvars, crashed, hvars>>

HN_KeepLocked ==
  /\ ~crashed
  /\ dpc = "hn_locked"
  /\ dReply' = dReply \o EncodeResponse([bucket_counters |-> dBuckets])
  /\ dpc' = "hn_ack"
  /\ UNCHANGED <<dargs, dCount, dBuckets, acks, accepted, nextNotify, errorsDelivered, rsStats>>
  /\ UNCHANGED <<cvars, tvars, mvars, crashed, hvars>>

\* get_bucket_counters returns, releasing the mutex; ::encode(response, output)
HN_Unlock ==
  /\ ~crashed
  /\ dpc = "hn_locked"
  /\ mutex' = mutex \ {DeliveryCtx}
  /\ dReply' = dReply \o EncodeResponse([bucket_counters |-> dBuckets])
  /\ dpc' = "hn_ack"
  /\ UNCHANGED <<dargs, dCount, dBuckets, acks, accepted, nextNotify, errorsDelivered, rsStats>>
  /\ UNCHANGED <<counter, bound, ppc, pkey, ptmp, calls, started, evicted>>
  /\ UNCHANGED <<tvars, mvars, crashed, hvars>>

NotifyAckEmpty ==
  [notify_id |-> dNotifyId, cookie |-> dCookie, reply |-> <<>>, ctx |-> ioctx]

\* the notify_ack call handle_notify makes
NotifyAck ==
  [notify_id |-> dNotifyId, cookie |-> dCookie, reply |-> dReply, ctx |-> ioctx]

\* ref.ioctx.notify_ack(ref.oid, notify_id, cookie, reply), and the return
\* of handle_notify
HN_Ack ==
  /\ ~crashed
  /\ dpc = "hn_ack"
  /\ acks' = Append(acks, NotifyAck)
  /\ DReturn
  /\ UNCHANGED <<accepted, nextNotify, errorsDelivered, rsStats>>
  /\ UNCHANGED <<cvars, tvars, mvars, crashed, hvars>>

\* the notify_ack call through a null io_ctx_impl kills the process
HN_AckCrash ==
  /\ ~crashed
  /\ dpc = "hn_ack"
  /\ ~CtxUsable
  /\ crashed' = TRUE
  /\ acks' = Append(acks, NotifyAck)
  /\ UNCHANGED <<dpc, dargs, dlocals, accepted, nextNotify, errorsDelivered, rsStats>>
  /\ UNCHANGED <<cvars, tvars, mvars, hvars>>

(***************************************************************************)
(* BucketTrimWatcher::handle_error and restart.                            *)
(***************************************************************************)
\* the transport calls handle_error(cookie, err)
D_Error(cookie, err) ==
  /\ ~crashed
  /\ dpc = "idle"
  /\ errorsDelivered < MaxErrors
  /\ cookie \in DeliveredCookies
  /\ dpc' = "he_entry"
  /\ dCookie' = cookie
  /\ dErr' = err
  /\ errorsDelivered' = errorsDelivered + 1
  /\ UNCHANGED <<dNotifyId, dBl, dlocals, acks, accepted, nextNotify, rsStats>>
  /\ UNCHANGED <<cvars, tvars, mvars, crashed, hvars>>

AnyError(err) == TRUE

\* if (err == -ENOTCONN)
IsDisconnect(err) == err = ENOTCONN

\* if (cookie != handle) return; if (err == -ENOTCONN) restart();
HE_Check ==
  /\ ~crashed
  /\ dpc = "he_entry"
  /\ IF CookieMatches(dCookie, handle) /\ IsDisconnect(dErr)
       THEN /\ dpc' = "rs_unwatch"
            /\ rsStats' = [rsStats EXCEPT !.disconnects = @ + 1]
            /\ UNCHANGED <<dargs, dlocals>>
       ELSE /\ DReturn
            /\ UNCHANGED rsStats
  /\ UNCHANGED <<acks, accepted, nextNotify, errorsDelivered>>
  /\ UNCHANGED <<cvars, tvars, mvars, crashed, hvars>>

RestartRetry(res) == IF res = OK THEN "idle" ELSE "rs_watch"

RestartNoRelease(res) == "idle"

\* restart() after its watch2: return r, after ref.ioctx.close() if r < 0
RestartNext(res) == IF res = OK THEN "idle" ELSE "rs_close"

RS_SkipUnwatch(res) ==
  /\ ~crashed
  /\ dpc = "rs_unwatch"
  /\ res \in CtxResults(UnwatchResults)
  /\ rsStats' = [rsStats EXCEPT !.unwatch = @ + 1]
  /\ dpc' = "rs_watch"
  /\ UNCHANGED <<dargs, dlocals, acks, accepted, nextNotify, errorsDelivered>>
  /\ UNCHANGED <<tvars, cvars, mvars, crashed, hvars>>

\* restart(): int r = ref.ioctx.unwatch2(handle); a failure is only logged
RS_Unwatch(res) ==
  /\ ~crashed
  /\ dpc = "rs_unwatch"
  /\ res \in CtxResults(UnwatchResults)
  /\ Unwatch2(res)
  /\ rsStats' = [rsStats EXCEPT !.unwatch = @ + 1]
  /\ dpc' = "rs_watch"
  /\ UNCHANGED <<dargs, dlocals, acks, accepted, nextNotify, errorsDelivered>>
  /\ UNCHANGED <<ioctx, cvars, mvars, crashed, hvars>>

RestartResetsCounter ==
  /\ counter' = EmptyCounter
  /\ UNCHANGED <<bound, mutex, ppc, pkey, ptmp, calls, started, evicted>>

\* restart() touches ref and handle only: BucketTrimWatcher has no access to
\* Impl::counter or Impl::mutex
RestartKeepsCounter == UNCHANGED cvars

\* r = ref.ioctx.watch2(ref.oid, &handle, this); handle_error returns when
\* it succeeds
RS_Watch(res) ==
  /\ ~crashed
  /\ dpc = "rs_watch"
  /\ res \in CtxResults(WatchResults)
  /\ Watch2(res)
  /\ rsStats' = [rsStats EXCEPT !.watch = @ + 1]
  /\ IF RestartNext(res) = "idle"
       THEN DReturn
       ELSE dpc' = RestartNext(res) /\ UNCHANGED <<dargs, dlocals>>
  /\ UNCHANGED <<acks, accepted, nextNotify, errorsDelivered>>
  /\ RestartKeepsCounter
  /\ UNCHANGED <<ioctx, mvars, crashed, hvars>>

\* if (r < 0) ref.ioctx.close(); and the return of handle_error
RS_Close ==
  /\ ~crashed
  /\ dpc = "rs_close"
  /\ Close
  /\ DReturn
  /\ UNCHANGED <<handle, watches, nextCookie>>
  /\ UNCHANGED <<acks, accepted, nextNotify, errorsDelivered, rsStats>>
  /\ UNCHANGED <<cvars, mvars, crashed, hvars>>

\* unwatch2 or watch2 of restart() through a null io_ctx_impl kills the
\* process
RS_Crash ==
  /\ ~crashed
  /\ dpc \in {"rs_unwatch", "rs_watch"}
  /\ ~CtxUsable
  /\ crashed' = TRUE
  /\ rsStats' = IF dpc = "rs_unwatch"
                  THEN [rsStats EXCEPT !.unwatch = @ + 1]
                  ELSE [rsStats EXCEPT !.watch = @ + 1]
  /\ UNCHANGED <<dpc, dargs, dlocals, acks, accepted, nextNotify, errorsDelivered>>
  /\ UNCHANGED <<cvars, tvars, mvars, hvars>>

(***************************************************************************)
(* The system.                                                             *)
(***************************************************************************)
Next ==
  \/ \E p \in Producers, b \in Buckets : P_Call(p, b)
  \/ \E p \in Producers : P_Lock(p)
  \/ \E p \in Producers : P_Insert(p)
  \/ \E res \in RefResults : ST_GetRef(res)
  \/ \E res \in WatchResults : ST_Watch(res)
  \/ \E res \in CreateResults : ST_Create(res)
  \/ \E res \in WatchResults : ST_Rewatch(res)
  \/ ST_Close
  \/ \E res \in UnwatchResults : SP_Unwatch(res)
  \/ SP_Close
  \/ SP_Crash
  \/ \E cookie \in DeliveredCookies, bl \in NotifyPayloads : D_Notify(cookie, bl)
  \/ HN_Check
  \/ HN_Dispatch
  \/ HN_Handle
  \/ HN_Lock
  \/ HN_Unlock
  \/ HN_Ack
  \/ HN_AckCrash
  \/ \E cookie \in DeliveredCookies, err \in ErrorCodes : D_Error(cookie, err)
  \/ HE_Check
  \/ \E res \in UnwatchResults : RS_Unwatch(res)
  \/ \E res \in WatchResults : RS_Watch(res)
  \/ RS_Close
  \/ RS_Crash

Spec == Init /\ [][Next]_vars

TypeOK ==
  /\ mutex \subseteq Producers \cup {DeliveryCtx}
  /\ ioctx \in {"null", "open", "closed"}
  /\ handle \in 0..(nextCookie - 1)
  /\ watches \subseteq DeliveredCookies

(***************************************************************************)
(* Counting: the producers and the peer queries of a watcher whose init()  *)
(* returned 0.                                                             *)
(***************************************************************************)
InitWatching ==
  /\ counter = EmptyCounter
  /\ bound \in CounterSizes
  /\ mutex = {}
  /\ ppc = [p \in Producers |-> "idle"]
  /\ pkey = [p \in Producers |-> <<>>]
  /\ ptmp = [p \in Producers |-> 0]
  /\ calls = [b \in Buckets |-> 0]
  /\ started = 0
  /\ evicted = FALSE
  /\ handle = 1
  /\ ioctx = "open"
  /\ watches = {1}
  /\ nextCookie = 2
  /\ mpc = "ready"
  /\ mret = OK
  /\ dpc = "idle"
  /\ dNotifyId = 0 /\ dCookie = 0 /\ dBl = <<>> /\ dErr = OK
  /\ dCount = 0 /\ dBuckets = <<>> /\ dReply = <<>>
  /\ acks = <<>>
  /\ accepted = {}
  /\ nextNotify = 1
  /\ errorsDelivered = 0
  /\ rsStats = [disconnects |-> 0, unwatch |-> 0, watch |-> 0]
  /\ crashed = FALSE
  /\ hIn = NoInput
  /\ hOut = NoOutput

NextCount ==
  \/ \E p \in Producers, b \in Buckets : P_Call(p, b)
  \/ \E p \in Producers : P_Lock(p)
  \/ \E p \in Producers : P_Insert(p)
  \/ \E cookie \in DeliveredCookies, bl \in NotifyPayloads : D_Notify(cookie, bl)
  \/ HN_Check
  \/ HN_Dispatch
  \/ HN_Handle
  \/ HN_Lock
  \/ HN_Unlock
  \/ HN_Ack

SpecCount == InitWatching /\ [][NextCount]_vars

AllReturned == \A p \in Producers : ppc[p] = "idle"

\* the entries of a query report every bucket recorded, each once, with the
\* number of on_bucket_changed calls made for it
ReportsCalls(buckets) ==
  /\ \A i \in 1..Len(buckets) : buckets[i].count = calls[buckets[i].bucket]
  /\ \A i, j \in 1..Len(buckets) : buckets[i].bucket = buckets[j].bucket => i = j
  /\ \A b \in Buckets : calls[b] > 0 => \E i \in 1..Len(buckets) : buckets[i].bucket = b

\* C1: when every on_bucket_changed call has returned and no insert had to
\* evict, the counter holds for every bucket the number of calls made for it,
\* and a query for at least as many entries as there are buckets, made then,
\* reports exactly those counts, in the vector and in the encoded reply.
CountingCorrect ==
  (AllReturned /\ ~evicted) =>
    /\ \A b \in Buckets : CounterGet(counter, b) = calls[b]
    /\ (dpc = "hn_locked" /\ dCount >= Cardinality(Buckets)) =>
         /\ ReportsCalls(dBuckets)
         /\ DecodeResponse(EncodeResponse([bucket_counters |-> dBuckets]), 0).val
              = [bucket_counters |-> dBuckets]

\* two producers have recorded the same bucket and a query ran after both
\* calls returned
CountingWitness ==
  /\ AllReturned /\ ~evicted
  /\ calls[Bucket1Inst1] >= 2
  /\ dpc = "hn_locked"
  /\ dBuckets = <<BucketCounter(Bucket1Inst1, calls[Bucket1Inst1])>>

(***************************************************************************)
(* The watcher alone: init(), the callbacks and stop(), with no producer   *)
(* running.                                                                *)
(***************************************************************************)
NextWatch ==
  \/ \E res \in RefResults : ST_GetRef(res)
  \/ \E res \in WatchResults : ST_Watch(res)
  \/ \E res \in CreateResults : ST_Create(res)
  \/ \E res \in WatchResults : ST_Rewatch(res)
  \/ ST_Close
  \/ \E res \in UnwatchResults : SP_Unwatch(res)
  \/ SP_Close
  \/ SP_Crash
  \/ \E cookie \in DeliveredCookies, bl \in NotifyPayloads : D_Notify(cookie, bl)
  \/ HN_Check
  \/ HN_Dispatch
  \/ HN_Handle
  \/ HN_Lock
  \/ HN_Unlock
  \/ HN_Ack
  \/ HN_AckCrash
  \/ \E cookie \in DeliveredCookies, err \in ErrorCodes : D_Error(cookie, err)
  \/ HE_Check
  \/ \E res \in UnwatchResults : RS_Unwatch(res)
  \/ \E res \in WatchResults : RS_Watch(res)
  \/ RS_Close
  \/ RS_Crash

SpecWatch == Init /\ [][NextWatch]_vars

\* the watch named by handle is registered and the io context is open
Watching == ioctx = "open" /\ handle \in watches

\* the delivery context is inside handle_notify, past the cookie check
InNotify == dpc \in {"hn_decode", "hn_handle", "hn_lock", "hn_locked", "hn_ack"}

\* the notify_ack calls made for notify id n
AcksFor(n) == Cardinality({i \in 1..Len(acks) : acks[i].notify_id = n})

\* the watcher and the counter as a callback can leave them
WatcherState == <<handle, ioctx, watches, nextCookie, counter, mutex>>

\* C2: a handle_notify whose cookie is not the current handle returns at
\* once: no handler runs, no notify_ack is made, and handle, io context,
\* watches and counter stay as they were; every notify_ack ever made is for
\* a notification that passed the cookie check.
StaleCookieDrop ==
  /\ [][(dpc = "hn_entry" /\ dCookie # handle /\ dpc' # dpc) =>
          /\ dpc' = "idle"
          /\ accepted' = accepted
          /\ acks' = acks
          /\ WatcherState' = WatcherState]_vars
  /\ [](\A i \in 1..Len(acks) : acks[i].notify_id \in accepted)
  /\ [](InNotify => dNotifyId \in accepted)

\* after a restart gave the watcher a new handle, a notification with the
\* old cookie was delivered and handle_notify returned without an ack
StaleCookieWitness ==
  /\ Watching /\ handle = 2
  /\ nextNotify = 2 /\ dpc = "idle"
  /\ accepted = {} /\ acks = <<>>

\* the payload of a notification does not decode: the raw type is cut short,
\* or the type has a handler and the request behind it throws
NotifyDecodeFails(bl) ==
  LET type == DecodeNotifyType(bl, 0) IN
  \/ ~type.ok
  \/ type.val \in {NotifyTrimCounters} /\ ~DecodeRequest(bl, RawEnumBytes).ok

\* the notify_ack call of the callback in progress
AckOfCallback(reply) ==
  [notify_id |-> dNotifyId, cookie |-> dCookie, reply |-> reply, ctx |-> ioctx]

\* every accepted notification is acknowledged once when handle_notify has
\* returned, and not before its notify_ack
AckedOnce ==
  \A n \in accepted :
    IF InNotify /\ dNotifyId = n
      THEN AcksFor(n) = 0 \/ (crashed /\ dpc = "hn_ack" /\ AcksFor(n) = 1)
      ELSE AcksFor(n) = 1

\* C3: when the payload of an accepted notification fails to decode, the
\* buffer::error is caught in handle_notify: the callback goes on to its
\* notify_ack with the reply still empty, makes exactly that one call, and
\* leaves handle, io context, watches and counter as they were.
DecodeFailureAcked ==
  /\ [][(InNotify /\ NotifyDecodeFails(dBl) /\ dpc' # dpc) =>
          /\ dpc \in {"hn_decode", "hn_handle", "hn_ack"}
          /\ dpc' = (IF dpc = "hn_ack" THEN "idle"
                     ELSE IF dpc = "hn_decode" /\ DecodeNotifyType(dBl, 0).ok
                       THEN "hn_handle" ELSE "hn_ack")
          /\ WatcherState' = WatcherState
          /\ acks' = (IF dpc = "hn_ack" THEN Append(acks, AckOfCallback(<<>>)) ELSE acks)]_vars
  /\ [][(InNotify /\ NotifyDecodeFails(dBl) /\ acks' # acks) =>
          acks' = Append(acks, AckOfCallback(<<>>)) /\ dpc = "hn_ack"]_vars
  /\ []((InNotify /\ NotifyDecodeFails(dBl)) => dReply = <<>>)
  /\ []AckedOnce

\* the handler threw on the request of a notification for the current watch
\* and handle_notify is about to acknowledge it with an empty reply
DecodeFailureWitness ==
  /\ Watching /\ ~crashed
  /\ dpc = "hn_ack" /\ dCookie = handle
  /\ DecodeNotifyType(dBl, 0).ok /\ NotifyDecodeFails(dBl)
  /\ dReply = <<>>

\* the payload starts with a type that has no handler
UnknownType(bl) ==
  LET type == DecodeNotifyType(bl, 0) IN type.ok /\ type.val # NotifyTrimCounters

\* C4: for an accepted notification whose type is not 0, handle_notify calls
\* no handler and never takes the mutex or touches the counter: it goes from
\* the lookup straight to one notify_ack with an empty reply.
UnknownTypeTolerated ==
  /\ [][(InNotify /\ UnknownType(dBl) /\ dpc' # dpc) =>
          /\ dpc \in {"hn_decode", "hn_ack"}
          /\ dpc' = (IF dpc = "hn_ack" THEN "idle" ELSE "hn_ack")
          /\ WatcherState' = WatcherState
          /\ acks' = (IF dpc = "hn_ack" THEN Append(acks, AckOfCallback(<<>>)) ELSE acks)]_vars
  /\ [][(InNotify /\ UnknownType(dBl) /\ acks' # acks) =>
          acks' = Append(acks, AckOfCallback(<<>>)) /\ dpc = "hn_ack"]_vars
  /\ []((InNotify /\ UnknownType(dBl)) =>
          /\ dpc \in {"hn_decode", "hn_ack"}
          /\ DeliveryCtx \notin mutex
          /\ dReply = <<>> /\ dBuckets = <<>>)
  /\ []AckedOnce

\* a notification of type 1 for the current watch, carrying a well-formed
\* request, is about to be acknowledged with an empty reply
UnknownTypeWitness ==
  /\ Watching /\ ~crashed
  /\ dpc = "hn_ack" /\ dCookie = handle
  /\ DecodeNotifyType(dBl, 0).val = NotifyTrimCounters + 1
  /\ DecodeRequest(dBl, RawEnumBytes).ok
  /\ dReply = <<>>

(***************************************************************************)
(* TrimCounters::Handler::handle checked alone: one call on a sampled      *)
(* request payload and a sampled counter content.                          *)
(***************************************************************************)
\* counters holding some of the two named buckets with small counts
SmallCounters == UNION {[S -> 1..MaxSampleCount] : S \in SUBSET Buckets}

\* "bucket1:inst1" recorded 10 times and "bucket2:inst1" 3 times
ScenarioCounter == [b \in Buckets |-> IF b = Bucket1Inst1 THEN 10 ELSE 3]

\* n one-byte keys with counts that repeat, so that ties occur
LargeCounter(n) == [k \in {<<i>> : i \in 1..n} |-> (k[1] % MaxSampleCount) + 1]

LargeSizes == (HardCeiling - 1)..(HardCeiling + ExtraKeys)

SampleCounters ==
  SmallCounters \cup {ScenarioCounter} \cup {LargeCounter(n) : n \in LargeSizes}

\* max_buckets values around 0, around the ceiling and the largest uint16
SampleMaxBuckets ==
  {0, 1, 2, HardCeiling - 1, HardCeiling, HardCeiling + 1, 65535}

\* the bytes the iterator of Handler::handle can stand on
HandlerInputs ==
  {GoodRequest(n) : n \in SampleMaxBuckets}
    \cup {Prefix(GoodRequest(1), k) : k \in 0..7}
    \cup {FutureRequest(1), OverlongRequest(1)}

Pending == [ok |-> FALSE, err |-> "pending", output |-> <<>>]

\* no context has run: the watcher and the counter as constructed
NothingRunning ==
  /\ counter = EmptyCounter
  /\ bound = 1
  /\ mutex = {}
  /\ ppc = [p \in Producers |-> "idle"]
  /\ pkey = [p \in Producers |-> <<>>]
  /\ ptmp = [p \in Producers |-> 0]
  /\ calls = [b \in Buckets |-> 0]
  /\ started = 0
  /\ evicted = FALSE
  /\ handle = 0
  /\ ioctx = "null"
  /\ watches = {}
  /\ nextCookie = 1
  /\ mpc = "new"
  /\ mret = OK
  /\ dpc = "idle"
  /\ dNotifyId = 0 /\ dCookie = 0 /\ dBl = <<>> /\ dErr = OK
  /\ dCount = 0 /\ dBuckets = <<>> /\ dReply = <<>>
  /\ acks = <<>>
  /\ accepted = {}
  /\ nextNotify = 1
  /\ errorsDelivered = 0
  /\ rsStats = [disconnects |-> 0, unwatch |-> 0, watch |-> 0]
  /\ crashed = FALSE

InitHandler ==
  /\ NothingRunning
  /\ hIn \in [bl : HandlerInputs, counter : SampleCounters]
  /\ hOut = Pending

\* handler.handle(p, reply) as one step
H_Handle ==
  /\ hOut = Pending
  /\ hOut' = HandlerHandle(hIn.bl, 0, hIn.counter)
  /\ UNCHANGED <<hIn, cvars, tvars, mvars, dvars, crashed>>

NextHandler == H_Handle

SpecHandler == InitHandler /\ [][NextHandler]_vars

\* the max_buckets of the request Handler::handle decoded
Requested == DecodeRequest(hIn.bl, 0).val.max_buckets

\* the entries a peer decodes from the reply
Returned == DecodeResponse(hOut.output, 0).val.bucket_counters

\* C5: whatever uint16 count the request carries (0 and values above 128
\* included) and whatever the counter holds, the reply of Handler::handle
\* decodes to at most min(requested count, 128) entries and to no more
\* entries than the counter has distinct keys.
ResponseClamped ==
  hOut.ok =>
    /\ DecodeResponse(hOut.output, 0).ok
    /\ Len(Returned) <= Min(Requested, 128)
    /\ Len(Returned) <= Cardinality(DOMAIN hIn.counter)

ResponseClampedWitness ==
  /\ hOut.ok
  /\ Requested > 128
  /\ Cardinality(DOMAIN hIn.counter) > 128
  /\ Len(Returned) = 128

\* C6: the entries of the reply are entries of the counter in descending
\* order of count, and no key left out has a larger count than a returned
\* one; with "bucket1:inst1" at 10 and "bucket2:inst1" at 3 a request for
\* one bucket is answered with exactly [("bucket1:inst1", 10)].
DescendingTopN ==
  hOut.ok =>
    LET c == hIn.counter
        left == DOMAIN c \ {Returned[i].bucket : i \in 1..Len(Returned)}
    IN /\ \A i \in 1..Len(Returned) :
            /\ Returned[i].bucket \in DOMAIN c
            /\ Returned[i].count = c[Returned[i].bucket]
            /\ i < Len(Returned) => Returned[i].count >= Returned[i + 1].count
            /\ \A k \in left : Returned[i].count >= c[k]
       /\ (c = ScenarioCounter /\ Requested = 1) =>
            Returned = <<BucketCounter(Bucket1Inst1, 10)>>

DescendingTopNWitness ==
  /\ hOut.ok
  /\ hIn.counter = ScenarioCounter
  /\ Requested = 1
  /\ Returned = <<BucketCounter(Bucket1Inst1, 10)>>

(***************************************************************************)
(* The life cycle of the watch: start, handle_error and restart.           *)
(***************************************************************************)
StartPositions == {"new", "st_watch", "st_create", "st_rewatch", "st_close"}

\* a watch2 call of this step registered a new watch
Subscribed == nextCookie' # nextCookie

\* C7: start() takes the steps of one subscribe, a create if and only if the
\* subscribe reported ENOENT, and one more subscribe if and only if the
\* create returned 0 or EEXIST; it returns 0 with the transport Watching
\* exactly when its last subscribe succeeded, and otherwise returns the error
\* with the transport not Watching.
StartOutcome ==
  [][/\ (mpc' # mpc /\ mpc' \in StartPositions) =>
          \/ mpc = "new" /\ mpc' = "st_watch"
          \/ mpc = "st_watch" /\ mpc' \in {"st_create", "st_close"}
          \/ mpc = "st_create" /\ mpc' \in {"st_rewatch", "st_close"}
          \/ mpc = "st_rewatch" /\ mpc' = "st_close"
     /\ (mpc = "new" /\ mpc' = "ready") => (mret' # OK /\ ~Watching')
     /\ (mpc = "st_watch" /\ mpc' # mpc) =>
          /\ (mpc' = "st_create") <=> (mret' = ENOENT)
          /\ (mpc' = "ready") <=> Subscribed
          /\ (mpc' = "st_close") <=> (mret' \notin {OK, ENOENT})
     /\ (mpc = "st_create" /\ mpc' # mpc) =>
          /\ (mpc' = "st_rewatch") <=> (mret' \in {OK, EEXIST})
          /\ ~Subscribed
     /\ (mpc = "st_rewatch" /\ mpc' # mpc) =>
          /\ (mpc' = "ready") <=> Subscribed
          /\ (mpc' = "st_close") <=> (mret' # OK)
     /\ (mpc = "st_close" /\ mpc' # mpc) =>
          (mpc' = "ready" /\ mret' = mret /\ mret' # OK /\ ~Watching')
     /\ (mpc \in StartPositions /\ mpc' = "ready") =>
          /\ (mret' = OK) <=> Subscribed
          /\ (mret' = OK) <=> Watching'
    ]_vars

\* start() returned the error of the subscribe it retried after the create
StartOutcomeWitness ==
  /\ mpc = "ready"
  /\ mret = ENOENT
  /\ ioctx = "closed"
  /\ ~Watching

\* the calls restart() has made for the disconnects acted on so far
RestartCalls ==
  LET d == rsStats.disconnects
      u == rsStats.unwatch
      w == rsStats.watch
  IN CASE dpc = "rs_unwatch" -> w = d - 1 /\ (u = d - 1 \/ (crashed /\ u = d))
       [] dpc = "rs_watch" -> u = d /\ (w = d - 1 \/ (crashed /\ w = d))
       [] OTHER -> u = d /\ w = d

\* C8: handle_error calls restart() exactly for an ENOTCONN carrying the
\* current handle, and every restart() makes one unwatch2 and then one watch2
\* call and no further one, whether that watch2 succeeds or fails.
OneRestartPerDisconnect ==
  /\ []RestartCalls
  /\ [][/\ (dpc = "he_entry" /\ dpc' # dpc) =>
             IF dCookie = handle /\ dErr = ENOTCONN
               THEN dpc' = "rs_unwatch" /\ rsStats'.disconnects = rsStats.disconnects + 1
               ELSE dpc' = "idle" /\ rsStats' = rsStats
        /\ (dpc' # dpc /\ dpc' = "rs_unwatch") => dpc = "he_entry"
        /\ (dpc' # dpc /\ dpc' = "rs_watch") => dpc = "rs_unwatch"
        /\ (dpc = "rs_watch" /\ dpc' # dpc) => dpc' \in {"idle", "rs_close"}
        /\ (dpc = "rs_close" /\ dpc' # dpc) => dpc' = "idle"
       ]_vars

\* handle_error returned after a restart() whose watch2 failed
OneRestartWitness ==
  /\ dpc = "idle"
  /\ rsStats = [disconnects |-> 1, unwatch |-> 1, watch |-> 1]
  /\ mpc = "ready" /\ mret = OK
  /\ ioctx = "closed"
  /\ ~crashed

\* C9: when the watch2 of restart() succeeds, restart() returns with the
\* transport Watching under a handle never issued before, and handle never
\* goes back to an earlier cookie; when it fails, restart() returns after
\* ref.ioctx.close() with the transport not Watching.
RestartOutcome ==
  [][/\ (dpc = "rs_watch" /\ dpc' # dpc) =>
          IF Subscribed
            THEN /\ dpc' = "idle"
                 /\ Watching'
                 /\ handle' # handle
                 /\ handle' \notin DeliveredCookies
            ELSE dpc' = "rs_close"
     /\ (dpc = "rs_close" /\ dpc' # dpc) =>
          (dpc' = "idle" /\ ioctx' # "open" /\ ~Watching')
     /\ (handle' # handle) => (handle' = 0 \/ handle' \notin DeliveredCookies)
    ]_vars

\* after a successful restart() a notification arrives under the handle of
\* before the restart
RestartOutcomeWitness ==
  /\ dpc = "hn_entry"
  /\ dCookie = 1
  /\ handle = 2
  /\ Watching
  /\ rsStats.watch = 1

(***************************************************************************)
(* Counting next to the life cycle of the watch.                           *)
(***************************************************************************)
\* positions of the delivery context inside handle_error and restart
ErrorPositions == {"he_entry", "rs_unwatch", "rs_watch", "rs_close"}

\* a step of start(), stop(), handle_error or restart()
WatcherStep ==
  \/ mpc' # mpc
  \/ crashed' # crashed
  \/ dpc' # dpc /\ (dpc \in ErrorPositions \/ dpc' \in ErrorPositions)

\* C10: no step of start, stop, handle_error or restart changes the counter,
\* the mutex or the record of the calls; in every state of the transport the
\* counter holds the number of on_bucket_changed calls that returned, and the
\* entries of a query are those of the counter at that moment, whatever
\* disconnects and restarts came before.
ReconnectKeepsCounting ==
  /\ [][WatcherStep => UNCHANGED cvars]_vars
  /\ []((AllReturned /\ ~evicted) =>
          /\ \A b \in Buckets : CounterGet(counter, b) = calls[b]
          /\ (dpc = "hn_locked" /\ dCount >= Cardinality(Buckets)) =>
               ReportsCalls(dBuckets))
  /\ [](dpc = "hn_locked" => dBuckets = GetBucketCounters(dCount, counter))

\* a query under the handle of a successful restart() reports the calls made
ReconnectWitness ==
  /\ dpc = "hn_locked"
  /\ dCookie = 2 /\ handle = 2
  /\ rsStats.watch = 1
  /\ AllReturned /\ ~evicted
  /\ calls[Bucket1Inst1] >= 1
  /\ dBuckets = <<BucketCounter(Bucket1Inst1, calls[Bucket1Inst1])>>

(***************************************************************************)
(* BucketTrimWatcher::stop and the destructor.                             *)
(***************************************************************************)
\* the owner's context died in the unwatch2 call of stop()
StopCrashed == ~crashed /\ crashed' /\ dvars' = dvars

\* a call of stop() begins
StopBegins == mpc \in {"new", "ready", "stopped"} /\ mpc' = "sp_close"

\* C11: stop() can be called in every state (init never called or failed,
\* Watching, after a failed restart, after an earlier stop) without an error:
\* it never kills the process, when it has returned no watch is registered
\* and ref.ioctx is released, and a second stop() changes nothing.
StopIdempotent ==
  /\ [][~StopCrashed]_vars
  /\ [][(StopBegins /\ mpc = "stopped") => UNCHANGED tvars]_vars
  /\ []((mpc = "stopped" /\ dpc = "idle") => (ioctx # "open" /\ watches = {}))

\* the destructor ran stop() on a watcher whose init() was never called
StopCrashWitness ==
  /\ crashed
  /\ mpc = "new"
  /\ ioctx = "null"
  /\ dpc = "idle" /\ acks = <<>> /\ rsStats.disconnects = 0

(***************************************************************************)
(* After a failed restart().                                               *)
(***************************************************************************)
\* start() had returned 0, a restart() failed and closed ref.ioctx, and
\* stop() has not been called
Error == mpc = "ready" /\ mret = OK /\ ioctx = "closed" /\ ~crashed

\* positions of the delivery context before the cookie check of a callback
BeforeCheck == {"idle", "hn_entry", "he_entry"}

\* C12: after a failed restart(), and until stop() is called, the watcher
\* stays as it is: no delivered notification or error passes the cookie
\* check, so no handler runs, no notify_ack, unwatch2 or watch2 call is made
\* on the closed io context, and the process does not die.
ErrorQuiet ==
  /\ [](Error => (dpc \in BeforeCheck /\ ~Watching))
  /\ [][(Error /\ ~StopBegins /\ ~StopCrashed) =>
          /\ Error'
          /\ dpc' \in BeforeCheck
          /\ acks' = acks /\ accepted' = accepted
          /\ rsStats' = rsStats
          /\ tvars' = tvars
          /\ ~crashed'
       ]_vars

\* a notification was delivered after the failed restart() and dropped
ErrorQuietWitness ==
  /\ Error
  /\ rsStats.watch = 1
  /\ nextNotify = 2
  /\ dpc = "idle"
  /\ acks = <<>>

(***************************************************************************)
(* The watches of one watcher.                                             *)
(***************************************************************************)
\* C13: the watcher never has more than one watch registered; while it is
\* Watching that watch is the one handle names; and the watch a restart()
\* registers is the only one left, whether or not its unwatch2 reported an
\* error.
OneActiveWatch ==
  /\ [](Cardinality(watches) <= 1)
  /\ [](Watching => watches = {handle})
  /\ [][(dpc = "rs_watch" /\ dpc' # dpc /\ Subscribed) =>
          (watches' = {handle'} /\ handle \notin watches')]_vars

\* a restart() has replaced the watch of start()
OneActiveWatchWitness ==
  /\ Watching
  /\ rsStats = [disconnects |-> 1, unwatch |-> 1, watch |-> 1]
  /\ handle = 2
  /\ watches = {2}
  /\ dpc = "idle"

(***************************************************************************)
(* Impl::mutex.                                                            *)
(***************************************************************************)
\* the contexts inside counter.insert or counter.get_highest
InCounter ==
  {p \in Producers : ppc[p] = "insert"}
    \cup (IF dpc = "hn_locked" THEN {DeliveryCtx} ELSE {})

\* C14: at most one context is inside insert or get_highest at a time, each
\* of them holds the mutex, the counter changes only under the mutex, and a
\* query reads the counter when no insert is under way and returns what the
\* counter holds until it releases the mutex.
CounterExclusion ==
  /\ [](Cardinality(InCounter) <= 1)
  /\ [](InCounter = mutex)
  /\ [](dpc = "hn_locked" => dBuckets = GetBucketCounters(dCount, counter))
  /\ [][(counter' # counter) =>
          \E p \in Producers : mutex = {p} /\ ppc[p] = "insert"]_vars
  /\ [][(dpc' = "hn_locked" /\ dpc # "hn_locked") =>
          (mutex = {} /\ \A p \in Producers : ppc[p] # "insert")]_vars

\* a query holds the mutex while a producer waits for it and another call
\* has already been counted
CounterExclusionWitness ==
  /\ dpc = "hn_locked"
  /\ mutex = {DeliveryCtx}
  /\ \E p \in Producers : ppc[p] = "lock"
  /\ dBuckets # <<>>

(***************************************************************************)
(* Producers next to a transport that may block.  No stop() runs here, so  *)
(* no callback finds ref.ioctx released under it; the calls into the       *)
(* object store may take for ever, the steps inside the mutex may not.     *)
(***************************************************************************)
\* a query and three payloads that never reach the counter
LivePayloads ==
  {NotifyPayload(NotifyTrimCounters, GoodRequest(2)),
   NotifyPayload(NotifyTrimCounters, FutureRequest(2)),
   NotifyPayload(1, GoodRequest(2))}

NextLive ==
  \/ \E p \in Producers, b \in Buckets : P_Call(p, b)
  \/ \E p \in Producers : P_Lock(p)
  \/ \E p \in Producers : P_Insert(p)
  \/ \E res \in RefResults : ST_GetRef(res)
  \/ \E res \in WatchResults : ST_Watch(res)
  \/ \E res \in CreateResults : ST_Create(res)
  \/ \E res \in WatchResults : ST_Rewatch(res)
  \/ ST_Close
  \/ \E cookie \in DeliveredCookies, bl \in LivePayloads : D_Notify(cookie, bl)
  \/ HN_Check
  \/ HN_Dispatch
  \/ HN_Handle
  \/ HN_Lock
  \/ HN_Unlock
  \/ HN_Ack
  \/ \E cookie \in DeliveredCookies, err \in ErrorCodes : D_Error(cookie, err)
  \/ HE_Check
  \/ \E res \in UnwatchResults : RS_Unwatch(res)
  \/ \E res \in WatchResults : RS_Watch(res)
  \/ RS_Close

\* the mutex is handed to every context that keeps asking for it, and a
\* context inside the mutex runs on; nothing is assumed of any other step
FairLocking ==
  /\ \A p \in Producers : SF_vars(P_Lock(p)) /\ WF_vars(P_Insert(p))
  /\ WF_vars(HN_Unlock)

SpecLive == Init /\ [][NextLive]_vars /\ FairLocking

\* positions at which a context stands before a call into the object store
\* or inside it
TransportPositions ==
  {"hn_ack", "rs_unwatch", "rs_watch", "rs_close"}

\* positions at which handle_notify decodes the type or the request
DecodePositions == {"hn_decode", "hn_handle"}

\* C15: the mutex is held only inside insert and get_highest, never at a call
\* into the object store nor while a request is decoded or a reply encoded,
\* and every on_bucket_changed call that has begun returns, wherever start()
\* or a callback may be waiting.
ProducersNotBlocked ==
  /\ [](mutex \subseteq Producers \cup {DeliveryCtx})
  /\ [](\A p \in Producers : p \in mutex <=> ppc[p] = "insert")
  /\ [](DeliveryCtx \in mutex <=> dpc = "hn_locked")
  /\ [](dpc \in TransportPositions \cup DecodePositions => DeliveryCtx \notin mutex)
  /\ \A p \in Producers : (ppc[p] # "idle") ~> (ppc[p] = "idle")

\* restart() waits in unwatch2 while a producer is inside insert
ProducersNotBlockedWitness ==
  /\ dpc = "rs_unwatch"
  /\ \E p \in Producers : ppc[p] = "insert" /\ mutex = {p}
  /\ calls[Bucket1Inst1] >= 1

(***************************************************************************)
(* encode followed by decode, checked alone on sampled messages standing   *)
(* anywhere in a buffer.                                                   *)
(***************************************************************************)
MaxInt32 == 2147483647

\* max_buckets values: the small ones, those around a byte boundary and the
\* largest
SampleU16 == (0..(8 * MaxSampleCount)) \cup {255, 256, 257, 65534, 65535}

SampleNames == {<<>>, <<0>>, <<255>>, Bucket1Inst1}

SampleCounts == {0, 1, 255, 256, MaxInt32 - 1, MaxInt32, -1, -MaxInt32 - 1}

SampleEntries == {BucketCounter(b, c) : b \in SampleNames, c \in SampleCounts}

\* n entries with different names and counts
LongVector(n) == [i \in 1..n |-> BucketCounter(<<i>>, i * 256 + (n - i))]

SampleVectors ==
  {<<>>}
    \cup {<<e>> : e \in SampleEntries}
    \cup {<<BucketCounter(a, 1), BucketCounter(b, MaxInt32)>> : a, b \in SampleNames}
    \cup {LongVector(n) : n \in LargeSizes}

WireMessages ==
  [kind : {"request"}, val : [max_buckets : SampleU16]]
    \cup [kind : {"entry"}, val : SampleEntries]
    \cup [kind : {"response"}, val : [bucket_counters : SampleVectors]]

\* bytes already in the buffer before the message, and bytes after it
Paddings == {<<>>, <<1, 0>>}

WireEncode(m) ==
  CASE m.kind = "request" -> EncodeRequest(m.val)
    [] m.kind = "entry" -> EncodeBucketCounter(m.val)
    [] m.kind = "response" -> EncodeResponse(m.val)

WireDecode(kind, bl, off) ==
  CASE kind = "request" -> DecodeRequest(bl, off)
    [] kind = "entry" -> DecodeBucketCounter(bl, off)
    [] kind = "response" -> DecodeResponse(bl, off)

InitWire ==
  /\ NothingRunning
  /\ hIn \in [msg : WireMessages, before : Paddings, after : Paddings]
  /\ hOut = Pending

\* m.encode(bl) on a buffer holding `before`, more bytes appended, and
\* m2.decode(p) with p standing where the message begins
W_RoundTrip ==
  /\ hOut = Pending
  /\ hIn \in [msg : WireMessages, before : Paddings, after : Paddings]
  /\ LET bytes == WireEncode(hIn.msg)
     IN hOut' = [bytes |-> bytes,
                 back |-> WireDecode(hIn.msg.kind,
                                     hIn.before \o bytes \o hIn.after,
                                     Len(hIn.before))]
  /\ UNCHANGED <<hIn, cvars, tvars, mvars, dvars, crashed>>

NextWire == W_RoundTrip

SpecWire == InitWire /\ [][NextWire]_vars

\* C16: every request, entry and response decodes from its encoding to
\* itself (the entries of a response in their order), and the decoder stops
\* exactly behind the bytes the encoder wrote.
WireRoundTrip ==
  hOut # Pending =>
    /\ hOut.back.ok
    /\ hOut.back.val = hIn.msg.val
    /\ hOut.back.off = Len(hIn.before) + Len(hOut.bytes)

\* a response of 128 entries went through, with bytes before and after it
WireRoundTripWitness ==
  /\ hOut # Pending
  /\ hIn.msg.kind = "response"
  /\ Len(hIn.msg.val.bucket_counters) = 128
  /\ hIn.before # <<>> /\ hIn.after # <<>>
  /\ hOut.back.val = hIn.msg.val

(***************************************************************************)
(* Messages of a later version: Request::decode and Response::decode on    *)
(* sampled buffers, next to the watcher that receives such requests.       *)
(***************************************************************************)
\* struct_v and struct_compat pairs a later build could write: compatible
\* with this decoder (compat 1) and not
LaterTags == {<<2, 1>>, <<2, 2>>, <<3, 2>>, <<255, 255>>, <<1, 2>>}

\* bodies of a request and of a response, as written today and with a field
\* appended
LaterBodies ==
  [request |-> {EncodeLE(2, 2), EncodeLE(2, 2) \o <<7>>},
   response |-> {EncodeVector(<<>>),
                 EncodeVector(<<BucketCounter(Bucket1Inst1, 3)>>),
                 EncodeVector(<<BucketCounter(Bucket1Inst1, 3)>>) \o <<7>>}]

\* the buffers handed to the decoders: whole, and cut short behind the tags
LaterBuffers(kind) ==
  UNION {{EncodeStartFinish(t[1], t[2], body),
          Prefix(EncodeStartFinish(t[1], t[2], body), 2),
          Prefix(EncodeStartFinish(t[1], t[2], body), 4)} :
           t \in LaterTags, body \in LaterBodies[kind]}

DecodeInputs ==
  [kind : {"request"}, bl : LaterBuffers("request")]
    \cup [kind : {"response"}, bl : LaterBuffers("response")]

InitDecode ==
  /\ NothingRunning
  /\ hIn \in DecodeInputs
  /\ hOut = Pending

\* request.decode(p) or response.decode(p) on the buffer, as one step
W_Decode ==
  /\ hOut = Pending
  /\ hOut' = [back |-> WireDecode(hIn.kind, hIn.bl, 0)]
  /\ UNCHANGED <<hIn, cvars, tvars, mvars, dvars, crashed>>

InitVersion == Init \/ InitDecode

\* the watcher runs in the behaviours that begin with Init, a decoder in the
\* others
NextVersion == (hIn = NoInput /\ NextWatch) \/ W_Decode

SpecVersion == InitVersion /\ [][NextVersion]_vars

\* the struct_compat written at off in bl is above 1
LaterCompat(bl, off) == Len(bl) >= off + 2 /\ bl[off + 2] > 1

\* what a decoder leaves of the message when it throws
NothingDecoded(kind) ==
  IF kind = "request" THEN [max_buckets |-> 0] ELSE [bucket_counters |-> <<>>]

\* C17: a request or response whose struct_compat is above 1 is refused by
\* its decoder with the error of an unsupported version and nothing decoded,
\* whatever follows the tags; such a request arriving in a notification ends
\* in one notify_ack with an empty reply, and the counter is not queried.
VersionRejected ==
  /\ []((hOut # Pending /\ hOut # NoOutput /\ LaterCompat(hIn.bl, 0)) =>
          /\ ~hOut.back.ok
          /\ hOut.back.err = "malformed_input_oldversion"
          /\ hOut.back.val = NothingDecoded(hIn.kind)
          /\ hOut.back.off = 0)
  /\ []((dpc \in {"hn_lock", "hn_locked"}) => ~LaterCompat(dBl, RawEnumBytes))
  /\ [][(dpc = "hn_handle" /\ LaterCompat(dBl, RawEnumBytes) /\ dpc' # dpc) =>
          /\ dpc' = "hn_ack"
          /\ dReply' = <<>>
          /\ UNCHANGED <<counter, mutex, dCount, dBuckets, acks>>]_vars
  /\ [][(dpc = "hn_ack" /\ LaterCompat(dBl, RawEnumBytes) /\ acks' # acks) =>
          /\ Len(acks') = Len(acks) + 1
          /\ acks'[Len(acks')].reply = <<>>
          /\ acks'[Len(acks')].notify_id = dNotifyId]_vars

\* handle_notify is about to acknowledge a request of a later version
VersionRejectedWitness ==
  /\ dpc = "hn_ack"
  /\ DecodeNotifyType(dBl, 0).val = NotifyTrimCounters
  /\ LaterCompat(dBl, RawEnumBytes)
  /\ dReply = <<>>
  /\ ioctx = "open"
  /\ mutex = {}

(***************************************************************************)
(* stop() against the callbacks in flight.                                 *)
(***************************************************************************)
\* stop() has closed ref.ioctx
Released == mpc = "stopped"

\* a callback calls unwatch2, watch2 or notify_ack through ref.ioctx in this
\* step
CallbackUsesCtx ==
  \/ rsStats'.unwatch # rsStats.unwatch
  \/ rsStats'.watch # rsStats.watch
  \/ Len(acks') # Len(acks)

\* C18: teardown is serialized against the delivery callbacks: once stop()
\* has released ref.ioctx no callback calls watch2, unwatch2 or notify_ack
\* through it, and once stop() has returned no watch of this watcher is
\* registered
TeardownSerialized ==
  /\ [][Released => ~CallbackUsesCtx]_vars
  /\ [](Released => watches = {})

\* stop() returned while restart() was between its unwatch2 and its return:
\* the watch restart() registered is still there
TeardownRaceWitness ==
  /\ Released
  /\ ~crashed
  /\ dpc = "idle"
  /\ watches = {handle}
  /\ rsStats.watch = 1

(***************************************************************************)
(* The filter of handle_error.                                             *)
(***************************************************************************)
\* the delivery context is inside restart()
InRestart == dpc \in {"rs_unwatch", "rs_watch", "rs_close"}

\* the delivery context passes the checks of handle_error in this step
ErrorChecked == dpc = "he_entry" /\ dpc' # "he_entry"

\* C19: handle_error begins a restart exactly when the cookie is the current
\* handle and the error is -ENOTCONN; for any other error callback it returns
\* with no unwatch2, no watch2 and the handle and the watches as they were
ErrorFiltered ==
  /\ [][ErrorChecked =>
          IF dCookie = handle /\ dErr = ENOTCONN
            THEN dpc' = "rs_unwatch"
            ELSE dpc' = "idle" /\ UNCHANGED <<tvars, rsStats>>]_vars
  /\ [](InRestart => dErr = ENOTCONN)
  /\ [](rsStats.unwatch <= rsStats.disconnects /\ rsStats.watch <= rsStats.disconnects)

\* one disconnect was acted on and a second error callback, with the cookie
\* of before the restart or with another error code, has returned: the watch
\* the restart registered is the current one
ErrorFilteredWitness ==
  /\ errorsDelivered = 2
  /\ rsStats = [disconnects |-> 1, unwatch |-> 1, watch |-> 1]
  /\ dpc = "idle"
  /\ mpc = "ready"
  /\ handle = 2
  /\ watches = {2}
  /\ ioctx = "open"
  /\ ~crashed

(***************************************************************************)
(* The acknowledgement of a notification.                                  *)
(***************************************************************************)
\* the payload is a TrimCounters request that decodes
WellFormed(bl) ==
  /\ DecodeNotifyType(bl, 0).ok
  /\ DecodeNotifyType(bl, 0).val = NotifyTrimCounters
  /\ DecodeRequest(bl, RawEnumBytes).ok

\* the entries a query for the request in bl reads from counter c
QueryOf(bl, c) ==
  GetBucketCounters(ClampCount(DecodeRequest(bl, RawEnumBytes).val.max_buckets), c)

\* C20: a notification whose cookie is the current handle is acknowledged by
\* exactly one notify_ack call, with the notify id and cookie it was
\* delivered with, made as the last step of handle_notify, after the handler;
\* for a TrimCounters request that decodes, the reply is the encoded response
\* holding the entries read from the counter when the query ran, and no
\* notify_ack is made before that reply is written.
AckExactlyOnce ==
  /\ [][(dpc = "hn_entry" /\ dCookie = handle /\ dpc' # dpc) =>
          dpc' = "hn_decode" /\ dNotifyId \in accepted']_vars
  /\ [][(InNotify /\ dpc' # "idle") => dargs' = dargs]_vars
  /\ []AckedOnce
  /\ [][acks' # acks =>
          /\ dpc = "hn_ack"
          /\ acks' = Append(acks, AckOfCallback(dReply))
          /\ crashed' \/ dpc' = "idle"]_vars
  /\ [][(dpc = "hn_lock" /\ dpc' # dpc) =>
          WellFormed(dBl) /\ dBuckets' = QueryOf(dBl, counter)]_vars
  /\ [][(InNotify /\ InNotify' /\ dpc # "hn_lock") => dBuckets' = dBuckets]_vars
  /\ []((dpc = "hn_ack" /\ WellFormed(dBl)) =>
          dReply = EncodeResponse([bucket_counters |-> dBuckets]))
  /\ []((InNotify /\ WellFormed(dBl) /\ dpc # "hn_ack") =>
          dReply = <<>> /\ AcksFor(dNotifyId) = 0)

\* a query read one call for a bucket, a second call for it was recorded
\* before the notify_ack, and the acknowledgement sent carries the count of
\* the time of the query
AckExactlyOnceWitness ==
  /\ ~crashed /\ Watching /\ dpc = "idle"
  /\ Len(acks) = 1
  /\ acks[1].ctx = "open" /\ acks[1].cookie = handle /\ acks[1].notify_id = 1
  /\ acks[1].reply = EncodeResponse([bucket_counters |-> <<BucketCounter(Bucket1Inst1, 1)>>])
  /\ CounterGet(counter, Bucket1Inst1) = 2

====
